---------------------------- MODULE Spec2Model ----------------------------
(***************************************************************************)
(* A model of src/js/persistence.ts: the persistence layer over            *)
(* AsyncStorage (lesson progress, recency pointers, preferences, metrics   *)
(* token).  Stored values are strings; every conversion the code performs  *)
(* (JSON.stringify, JSON.parse, Number.prototype.toString, parseInt,       *)
(* '' + val, the fromString decoders) is computed on strings.              *)
(***************************************************************************)
EXTENDS Integers, Sequences, FiniteSets, TLC

(***************************************************************************)
(* JavaScript values.  Every value is a record tagged by t, so that values *)
(* of different JavaScript types can be compared.  Numbers are the         *)
(* integers and NaN (fractions are not modelled).                          *)
(***************************************************************************)
JNull == [t |-> "null"]
JNaN == [t |-> "NaN"]
JSyntaxError == [t |-> "SyntaxError"]
\* The error of a request the store rejects.
JStoreError == [t |-> "StoreError"]
JBool(b) == [t |-> "boolean", v |-> b]
JNum(n) == [t |-> "number", v |-> n]
JStr(s) == [t |-> "string", v |-> s]
\* An object is the sequence of its own properties in insertion order.
JObj(props) == [t |-> "object", v |-> props]
Prop(k, val) == [k |-> k, val |-> val]

IsError(x) == x.t = "SyntaxError"

\* The index of property k in a property sequence, 0 when there is none.
PropIndex(props, k) ==
  IF \E i \in 1..Len(props) : props[i].k = k
  THEN CHOOSE i \in 1..Len(props) : props[i].k = k
  ELSE 0

\* Assignment of one property: an existing key keeps its place.
PropSet(props, k, val) ==
  IF PropIndex(props, k) = 0
  THEN Append(props, Prop(k, val))
  ELSE [props EXCEPT ![PropIndex(props, k)] = Prop(k, val)]

\* obj.k, with JNull standing for undefined.
PropGet(x, k) ==
  IF x.t = "object" /\ PropIndex(x.v, k) # 0
  THEN x.v[PropIndex(x.v, k)].val
  ELSE JNull

(***************************************************************************)
(* Strings.                                                                *)
(***************************************************************************)
Digits == <<"0", "1", "2", "3", "4", "5", "6", "7", "8", "9">>

IsDigit(ch) == \E i \in 1..10 : Digits[i] = ch

DigitValue(ch) == (CHOOSE i \in 1..10 : Digits[i] = ch) - 1

CharAt(s, i) == SubSeq(s, i, i)

StartsWith(s, p) == Len(s) >= Len(p) /\ SubSeq(s, 1, Len(p)) = p

Drop(s, n) == SubSeq(s, n + 1, Len(s))

RECURSIVE NatToString(_)
NatToString(n) ==
  IF n < 10 THEN Digits[n + 1]
  ELSE NatToString(n \div 10) \o Digits[(n % 10) + 1]

\* Number.prototype.toString and the template literal `${n}` of an integer.
IntToString(n) == IF n < 0 THEN "-" \o NatToString(0 - n) ELSE NatToString(n)

\* String(x) of a JavaScript number value.
NumberToString(x) == IF x.t = "NaN" THEN "NaN" ELSE IntToString(x.v)

\* The length of the longest prefix of s made of decimal digits.
RECURSIVE DigitPrefixLen(_)
DigitPrefixLen(s) ==
  IF Len(s) > 0 /\ IsDigit(CharAt(s, 1)) THEN 1 + DigitPrefixLen(Drop(s, 1))
  ELSE 0

\* The value of a string of decimal digits.
RECURSIVE DigitsValue(_)
DigitsValue(s) ==
  IF Len(s) = 0 THEN 0
  ELSE 10 * DigitsValue(SubSeq(s, 1, Len(s) - 1)) + DigitValue(CharAt(s, Len(s)))

RECURSIVE SkipSpaces(_)
SkipSpaces(s) == IF StartsWith(s, " ") THEN SkipSpaces(Drop(s, 1)) ELSE s

\* parseInt(str, 10): leading blanks, an optional sign, then the longest run
\* of digits; NaN when there is no digit.
parseInt(str) ==
  LET s0 == SkipSpaces(str)
      neg == StartsWith(s0, "-")
      s1 == IF neg \/ StartsWith(s0, "+") THEN Drop(s0, 1) ELSE s0
      n == DigitPrefixLen(s1)
  IN IF n = 0 THEN JNaN
     ELSE JNum((IF neg THEN -1 ELSE 1) * DigitsValue(SubSeq(s1, 1, n)))


(***************************************************************************)
(* JSON.  JSON.stringify writes a non-finite number as null.  JSON.parse   *)
(* reads the literals, integers, strings without escapes and objects of    *)
(* these, with no blanks between tokens (the form JSON.stringify writes);  *)
(* any other text is a SyntaxError.                                        *)
(***************************************************************************)
Quote == "\""

RECURSIVE JSONstringify(_)
RECURSIVE StringifyProps(_)
JSONstringify(x) ==
  CASE x.t = "boolean" -> IF x.v THEN "true" ELSE "false"
    [] x.t = "null" -> "null"
    [] x.t = "number" -> IntToString(x.v)
    [] x.t = "NaN" -> "null"
    [] x.t = "string" -> Quote \o x.v \o Quote
    [] x.t = "object" -> "{" \o StringifyProps(x.v) \o "}"

StringifyProps(props) ==
  IF Len(props) = 0 THEN ""
  ELSE Quote \o props[1].k \o Quote \o ":" \o JSONstringify(props[1].val)
       \o (IF Len(props) = 1 THEN "" ELSE "," \o StringifyProps(Tail(props)))

ParseFail == [ok |-> FALSE, val |-> JSyntaxError, rest |-> ""]
ParseOk(val, rest) == [ok |-> TRUE, val |-> val, rest |-> rest]

\* The number of characters of s before its first double quote, or -1.
RECURSIVE UntilQuote(_)
UntilQuote(s) ==
  IF Len(s) = 0 THEN -1
  ELSE IF CharAt(s, 1) = Quote THEN 0
  ELSE LET r == UntilQuote(Drop(s, 1)) IN IF r < 0 THEN -1 ELSE r + 1

\* A string token at the head of s (s starts with a double quote).
ParseString(s) ==
  LET n == UntilQuote(Drop(s, 1))
  IN IF n < 0 THEN ParseFail
     ELSE ParseOk(JStr(SubSeq(s, 2, n + 1)), Drop(s, n + 2))

\* An integer token at the head of s: -?(0|[1-9][0-9]*).
ParseNumber(s) ==
  LET neg == StartsWith(s, "-")
      s1 == IF neg THEN Drop(s, 1) ELSE s
      n == IF StartsWith(s1, "0") THEN 1 ELSE DigitPrefixLen(s1)
  IN IF n = 0 THEN ParseFail
     ELSE ParseOk(JNum((IF neg THEN -1 ELSE 1) * DigitsValue(SubSeq(s1, 1, n))),
                  Drop(s1, n))

RECURSIVE ParseValue(_)
RECURSIVE ParseMembers(_, _)
ParseValue(s) ==
  CASE StartsWith(s, "true") -> ParseOk(JBool(TRUE), Drop(s, 4))
    [] StartsWith(s, "false") -> ParseOk(JBool(FALSE), Drop(s, 5))
    [] StartsWith(s, "null") -> ParseOk(JNull, Drop(s, 4))
    [] StartsWith(s, Quote) -> ParseString(s)
    [] StartsWith(s, "{}") -> ParseOk(JObj(<<>>), Drop(s, 2))
    [] StartsWith(s, "{") /\ ~StartsWith(s, "{}") -> ParseMembers(Drop(s, 1), <<>>)
    [] OTHER -> ParseNumber(s)

\* The members of an object after "{" or ",": "key":value, then "," or "}".
ParseMembers(s, props) ==
  IF ~StartsWith(s, Quote) THEN ParseFail
  ELSE LET key == ParseString(s)
       IN IF ~key.ok \/ ~StartsWith(key.rest, ":") THEN ParseFail
          ELSE LET member == ParseValue(Drop(key.rest, 1))
                   got == PropSet(props, key.val.v, member.val)
               IN IF ~member.ok THEN ParseFail
                  ELSE IF StartsWith(member.rest, ",")
                       THEN ParseMembers(Drop(member.rest, 1), got)
                  ELSE IF StartsWith(member.rest, "}")
                       THEN ParseOk(JObj(got), Drop(member.rest, 1))
                  ELSE ParseFail

\* JSON.parse(text): the value, or JSyntaxError (the exception it throws).
JSONparse(text) ==
  LET r == ParseValue(text)
  IN IF r.ok /\ r.rest = "" THEN r.val ELSE JSyntaxError

\* '' + val: the string coercion the preference setter stores.
ToStringCoercion(val) ==
  CASE val.t = "boolean" -> IF val.v THEN "true" ELSE "false"
    [] val.t = "null" -> "null"
    [] val.t = "number" -> IntToString(val.v)
    [] val.t = "NaN" -> "NaN"
    [] val.t = "string" -> val.v
    [] val.t = "object" -> "[object Object]"

\* The own enumerable properties an object spread {...x} copies: those of an
\* object, the indexed characters of a string, none of any other value.
RECURSIVE StringProps(_, _)
StringProps(s, i) ==
  IF i > Len(s) THEN <<>>
  ELSE <<Prop(IntToString(i - 1), JStr(CharAt(s, i)))>> \o StringProps(s, i + 1)

Spread(x) ==
  CASE x.t = "object" -> x.v
    [] x.t = "string" -> StringProps(x.v, 1)
    [] OTHER -> <<>>


(***************************************************************************)
(* The key-value store (AsyncStorage): a map from string keys to string    *)
(* values; a key it does not hold reads as null.                           *)
(***************************************************************************)
EmptyStore == [k \in {} |-> ""]

getItem(st, key) == IF key \in DOMAIN st THEN JStr(st[key]) ELSE JNull

setItem(st, key, value) ==
  [k \in DOMAIN st \cup {key} |-> IF k = key THEN value ELSE st[k]]

removeItem(st, key) == [k \in DOMAIN st \ {key} |-> st[k]]

\* A store request a call has issued and the store has not yet performed.
SetRequest(key, value) == [kind |-> "setItem", key |-> key, value |-> value]
RemoveRequest(key) == [kind |-> "removeItem", key |-> key, value |-> ""]

Perform(st, w) ==
  IF w.kind = "setItem" THEN setItem(st, w.key, w.value) ELSE removeItem(st, w.key)

(***************************************************************************)
(* Storage keys.                                                           *)
(***************************************************************************)
AutopauseKey == "@global-setting/autopause"

ProgressKey(course, lesson) ==
  "@activity/" \o course \o "/" \o NumberToString(lesson)

\* Fault variant: the most recent lesson is kept under one key for all courses.
MostRecentLessonKey_noCourse(course) == "@activity/most-recent-lesson"

MostRecentLessonKey(course) == "@activity/" \o course \o "/most-recent-lesson"

MostRecentCourseKey == "@activity/most-recent-course"

MetricsTokenKey == "@metrics/user-token"

PreferenceKey(name) == "@preferences/" \o name

(***************************************************************************)
(* The Preference enum, with the default value and the fromString decoder  *)
(* each fixed instantiation of preference() passes.                        *)
(***************************************************************************)
AUTO_DELETE_FINISHED == "auto-delete-finished"
STREAM_QUALITY == "stream-quality"
DOWNLOAD_QUALITY == "download-quality"
DOWNLOAD_ONLY_ON_WIFI == "download-only-on-wifi"
ALLOW_DATA_COLLECTION == "allow-data-collection"
IS_FIRST_LOAD == "is-first-load"
RATING_BUTTON_DISMISSED == "rating-button-dismissed"
KILLSWITCH_COURSE_VERSION_V1 == "killswitch-course-version-v1"

Preference ==
  {AUTO_DELETE_FINISHED, STREAM_QUALITY, DOWNLOAD_QUALITY, DOWNLOAD_ONLY_ON_WIFI,
   ALLOW_DATA_COLLECTION, IS_FIRST_LOAD, RATING_BUTTON_DISMISSED,
   KILLSWITCH_COURSE_VERSION_V1}

\* The decoder of each preference: (b) => b === 'true', (b) => b, or
\* (o) => JSON.parse(o).
BooleanPreferences ==
  {AUTO_DELETE_FINISHED, DOWNLOAD_ONLY_ON_WIFI, ALLOW_DATA_COLLECTION,
   IS_FIRST_LOAD, KILLSWITCH_COURSE_VERSION_V1}

StringPreferences == {STREAM_QUALITY, DOWNLOAD_QUALITY}

JSONPreferences == {RATING_BUTTON_DISMISSED}

\* Fault variant: is-first-load defaults to false.
defaultValue_firstLoadFalse(name) ==
  CASE name = AUTO_DELETE_FINISHED -> JBool(FALSE)
    [] name = STREAM_QUALITY -> JStr("low")
    [] name = DOWNLOAD_QUALITY -> JStr("high")
    [] name = DOWNLOAD_ONLY_ON_WIFI -> JBool(TRUE)
    [] name = ALLOW_DATA_COLLECTION -> JBool(TRUE)
    [] name = IS_FIRST_LOAD -> JBool(FALSE)
    [] name = RATING_BUTTON_DISMISSED -> JObj(<<Prop("dismissed", JBool(FALSE))>>)
    [] name = KILLSWITCH_COURSE_VERSION_V1 -> JBool(FALSE)

defaultValue(name) ==
  CASE name = AUTO_DELETE_FINISHED -> JBool(FALSE)
    [] name = STREAM_QUALITY -> JStr("low")
    [] name = DOWNLOAD_QUALITY -> JStr("high")
    [] name = DOWNLOAD_ONLY_ON_WIFI -> JBool(TRUE)
    [] name = ALLOW_DATA_COLLECTION -> JBool(TRUE)
    [] name = IS_FIRST_LOAD -> JBool(TRUE)
    [] name = RATING_BUTTON_DISMISSED -> JObj(<<Prop("dismissed", JBool(FALSE))>>)
    [] name = KILLSWITCH_COURSE_VERSION_V1 -> JBool(FALSE)

\* Fault variant: every stored string decodes as a boolean.
fromString_allBoolean(name, str) == JBool(str = "true")

fromString(name, str) ==
  CASE name \in BooleanPreferences -> JBool(str = "true")
    [] name \in StringPreferences -> JStr(str)
    [] name \in JSONPreferences -> JSONparse(str)

\* What the getter of preference name returns for the stored value val
\* (lines 176-180): the default for null, else the decoded string.
PreferenceValue(name, val) ==
  IF val = JNull THEN defaultValue(name) ELSE fromString(name, val.v)

(***************************************************************************)
(* Pure parts of the progress accessors.                                   *)
(***************************************************************************)
\* Fault variant: an unset key reads as null, without the default record.
ProgressForLessonValue_nullWhenAbsent(progress) ==
  IF progress = JNull THEN JNull ELSE JSONparse(progress.v)

\* What genProgressForLesson returns for the stored string progress
\* (lines 73-80).
ProgressForLessonValue(progress) ==
  IF progress = JNull
  THEN JObj(<<Prop("finished", JBool(FALSE)), Prop("progress", JNull)>>)
  ELSE JSONparse(progress.v)

\* Fault variant: only the first character of the stored string is parsed.
MostRecentLessonValue_firstDigit(mostRecentLesson) ==
  IF mostRecentLesson = JNull THEN JNull ELSE parseInt(CharAt(mostRecentLesson.v, 1))

\* What genMostRecentListenedLessonForCourse returns for the stored string
\* (lines 50-54).
MostRecentLessonValue(mostRecentLesson) ==
  IF mostRecentLesson = JNull THEN JNull ELSE parseInt(mostRecentLesson.v)

\* Fault variant: the record is written without the fields of the stored record.
UpdateProgressRequests_noSpread(course, lesson, progress, progressObject) ==
  {SetRequest(ProgressKey(course, lesson),
              JSONstringify(JObj(<<Prop("progress", progress)>>))),
   SetRequest(MostRecentLessonKey(course), NumberToString(lesson)),
   SetRequest(MostRecentCourseKey, course)}

\* The three writes genUpdateProgressForLesson hands to Promise.all.
UpdateProgressRequests(course, lesson, progress, progressObject) ==
  {SetRequest(ProgressKey(course, lesson),
              JSONstringify(JObj(PropSet(Spread(progressObject), "progress", progress)))),
   SetRequest(MostRecentLessonKey(course), NumberToString(lesson)),
   SetRequest(MostRecentCourseKey, course)}

\* Fault variant: the most recent lesson is set to the lesson after the finished one.
MarkFinishedRequests_nextLesson(course, lesson, progressObject) ==
  {SetRequest(ProgressKey(course, lesson),
              JSONstringify(JObj(PropSet(Spread(progressObject), "finished", JBool(TRUE))))),
   SetRequest(MostRecentLessonKey(course), IntToString(lesson.v + 1)),
   SetRequest(MostRecentCourseKey, course)}

\* Fault variant: an absent progress is written as zero.
MarkFinishedRequests_zeroProgress(course, lesson, progressObject) ==
  {SetRequest(ProgressKey(course, lesson),
              JSONstringify(JObj(PropSet(
                PropSet(Spread(progressObject), "progress",
                        IF PropGet(progressObject, "progress") = JNull THEN JNum(0)
                        ELSE PropGet(progressObject, "progress")),
                "finished", JBool(TRUE))))),
   SetRequest(MostRecentLessonKey(course), NumberToString(lesson)),
   SetRequest(MostRecentCourseKey, course)}

\* The three writes genMarkLessonFinished hands to Promise.all.
MarkFinishedRequests(course, lesson, progressObject) ==
  {SetRequest(ProgressKey(course, lesson),
              JSONstringify(JObj(PropSet(Spread(progressObject), "finished", JBool(TRUE))))),
   SetRequest(MostRecentLessonKey(course), NumberToString(lesson)),
   SetRequest(MostRecentCourseKey, course)}


(***************************************************************************)
(* Bounds and inputs.                                                      *)
(***************************************************************************)
\* The number of calls that change the state in one behaviour.
MaxCalls == 3

Courses == {"spanish", "german"}

\* CourseData.getLessonIndices: the lesson indices the catalog reports.
getLessonIndices(course) == IF course = "spanish" THEN <<0, 1>> ELSE <<0>>

\* The (course, lesson) pairs callers pass: the catalog's lessons and one
\* lesson index the catalog does not report.
PlayedLessons ==
  {<<"spanish", 0>>, <<"spanish", 1>>, <<"spanish", 12>>, <<"german", 0>>}

\* The progress values callers pass: a playback position is a JavaScript
\* number, which includes NaN.
ProgressValues == {JNum(0), JNum(42), JNaN}

TaskIds == {1, 2}

(***************************************************************************)
(* State.                                                                  *)
(*   store      the key-value store                                        *)
(*   tasks      the calls in flight, one per task id                       *)
(*   last       the state-changing call that returned most recently,       *)
(*              with no other call in flight when it returned, while no    *)
(*              later state-changing call has been issued (a call of       *)
(*              genMetricsToken, which may return without writing, keeps   *)
(*              it until it returns itself)                                *)
(*   downloads  the (course, lesson) pairs DownloadManager holds           *)
(*   log        the events handed to log(), in order                       *)
(*   nextUuid   the number of tokens uuid() has produced                   *)
(*   nCalls     the number of state-changing calls issued                  *)
(*   issued     the (course, lesson) pairs of the progress mutations       *)
(*              issued so far                                              *)
(***************************************************************************)
VARIABLES store, tasks, last, downloads, log, nextUuid, nCalls, issued

vars == <<store, tasks, last, downloads, log, nextUuid, nCalls, issued>>

\* A call: its operation and arguments, its position, the requests it has
\* issued that the store has not performed, what its caller has observed
\* (status, result), the store and the downloads at the time of the call, the
\* genDeleteDownload calls it made, the number of store requests it issued,
\* what its getItem returned (seen) and the requests the store rejected.
IdleTask ==
  [op |-> "idle", pc |-> "idle", course |-> "", lesson |-> JNull, val |-> JNull,
   name |-> "", pending |-> {}, status |-> "none", result |-> JNull,
   pre |-> EmptyStore, preDownloads |-> {}, deleted |-> <<>>, accesses |-> 0,
   seen |-> JNull, failed |-> {}]

NewTask(op, pc, course, lesson, val, name) ==
  [IdleTask EXCEPT !.op = op, !.pc = pc, !.course = course, !.lesson = lesson,
                   !.val = val, !.name = name, !.status = "running",
                   !.pre = store, !.preDownloads = downloads]

Resolve(task, result) ==
  [task EXCEPT !.pc = "done", !.status = "resolved", !.result = result]

Reject(task, error) ==
  [task EXCEPT !.pc = "done", !.status = "rejected", !.result = error]

\* The task after the store performed request w: Promise.all resolves when
\* the last request is performed and none was rejected.
Performed(task, w, nextPc) ==
  LET left == task.pending \ {w}
  IN IF left # {} THEN [task EXCEPT !.pending = left]
     ELSE IF task.status # "running" THEN [task EXCEPT !.pending = left, !.pc = "done"]
     ELSE IF nextPc = "done" THEN Resolve([task EXCEPT !.pending = left], JNull)
     ELSE [task EXCEPT !.pending = left, !.pc = nextPc]

Init ==
  /\ store = EmptyStore
  /\ tasks = [t \in TaskIds |-> IdleTask]
  /\ last = IdleTask
  /\ downloads = {}
  /\ log = <<>>
  /\ nextUuid = 0
  /\ nCalls = 0
  /\ issued = {}

(***************************************************************************)
(* genMostRecentListenedLessonForCourse (lines 44-55).                     *)
(***************************************************************************)
genMostRecentListenedLessonForCourseCall(t, course) ==
  /\ tasks[t].op = "idle"
  /\ tasks' = [tasks EXCEPT ![t] =
       [NewTask("genMostRecentListenedLessonForCourse", "read", course, JNull, JNull, "")
          EXCEPT !.accesses = 1]]
  /\ UNCHANGED <<store, last, downloads, log, nextUuid, nCalls, issued>>

genMostRecentListenedLessonForCourseRead(t) ==
  /\ tasks[t].op = "genMostRecentListenedLessonForCourse"
  /\ tasks[t].pc = "read"
  /\ LET mostRecentLesson == getItem(store, MostRecentLessonKey(tasks[t].course))
     IN tasks' = [tasks EXCEPT ![t] =
          Resolve([@ EXCEPT !.seen = mostRecentLesson],
                  MostRecentLessonValue(mostRecentLesson))]
  /\ UNCHANGED <<store, last, downloads, log, nextUuid, nCalls, issued>>

(***************************************************************************)
(* genMostRecentListenedCourse (lines 57-59).                              *)
(***************************************************************************)
genMostRecentListenedCourseCall(t) ==
  /\ tasks[t].op = "idle"
  /\ tasks' = [tasks EXCEPT ![t] =
       [NewTask("genMostRecentListenedCourse", "read", "", JNull, JNull, "")
          EXCEPT !.accesses = 1]]
  /\ UNCHANGED <<store, last, downloads, log, nextUuid, nCalls, issued>>

genMostRecentListenedCourseRead(t) ==
  /\ tasks[t].op = "genMostRecentListenedCourse"
  /\ tasks[t].pc = "read"
  /\ tasks' = [tasks EXCEPT ![t] =
       Resolve([@ EXCEPT !.seen = getItem(store, MostRecentCourseKey)],
               getItem(store, MostRecentCourseKey))]
  /\ UNCHANGED <<store, last, downloads, log, nextUuid, nCalls, issued>>

(***************************************************************************)
(* genProgressForLesson (lines 61-81).  A null lesson returns null and     *)
(* issues no store request.                                                *)
(***************************************************************************)
genProgressForLessonCall(t, course, lesson) ==
  /\ tasks[t].op = "idle"
  /\ tasks' = [tasks EXCEPT ![t] =
       IF lesson = JNull
       THEN Resolve(NewTask("genProgressForLesson", "done", course, lesson, JNull, ""), JNull)
       ELSE [NewTask("genProgressForLesson", "read", course, lesson, JNull, "")
               EXCEPT !.accesses = 1]]
  /\ UNCHANGED <<store, last, downloads, log, nextUuid, nCalls, issued>>

genProgressForLessonRead(t) ==
  /\ tasks[t].op = "genProgressForLesson"
  /\ tasks[t].pc = "read"
  /\ LET stored == getItem(store, ProgressKey(tasks[t].course, tasks[t].lesson))
         progress == ProgressForLessonValue(stored)
         task == [tasks[t] EXCEPT !.seen = stored]
     IN tasks' = [tasks EXCEPT ![t] =
          IF IsError(progress) THEN Reject(task, progress) ELSE Resolve(task, progress)]
  /\ UNCHANGED <<store, last, downloads, log, nextUuid, nCalls, issued>>

(***************************************************************************)
(* genUpdateProgressForLesson (lines 83-104): read the record, then hand   *)
(* the three writes to Promise.all; the store performs them in any order.  *)
(***************************************************************************)
genUpdateProgressForLessonCall(t, course, lesson, progress) ==
  /\ tasks[t].op = "idle"
  /\ nCalls < MaxCalls
  /\ tasks' = [tasks EXCEPT ![t] =
       [NewTask("genUpdateProgressForLesson", "read", course, lesson, progress, "")
          EXCEPT !.accesses = 1]]
  /\ nCalls' = nCalls + 1
  /\ issued' = issued \cup {<<course, lesson>>}
  /\ UNCHANGED <<store, downloads, log, nextUuid>>
  /\ last' = IdleTask

genUpdateProgressForLessonRead(t) ==
  /\ tasks[t].op = "genUpdateProgressForLesson"
  /\ tasks[t].pc = "read"
  /\ LET stored == getItem(store, ProgressKey(tasks[t].course, tasks[t].lesson))
         task == [tasks[t] EXCEPT !.seen = stored]
         progressObject == ProgressForLessonValue(stored)
     IN tasks' = [tasks EXCEPT ![t] =
          IF IsError(progressObject) THEN Reject(task, progressObject)
          ELSE [task EXCEPT !.pc = "write", !.accesses = @ + 3,
                            !.pending = UpdateProgressRequests(
                               task.course, task.lesson, task.val, progressObject)]]
  /\ UNCHANGED <<store, last, downloads, log, nextUuid, nCalls, issued>>

\* Fault variant: the record is merged with the record the store holds when the
\* write is performed, not with the record read earlier.
genUpdateProgressForLessonWrite_merges(t, w) ==
  /\ tasks[t].op = "genUpdateProgressForLesson"
  /\ tasks[t].pc = "write"
  /\ w \in tasks[t].pending
  /\ store' = IF w.key = ProgressKey(tasks[t].course, tasks[t].lesson)
              THEN setItem(store, w.key,
                     JSONstringify(JObj(PropSet(
                       Spread(ProgressForLessonValue(getItem(store, w.key))),
                       "progress", tasks[t].val))))
              ELSE Perform(store, w)
  /\ tasks' = [tasks EXCEPT ![t] = Performed(@, w, "done")]
  /\ UNCHANGED <<last, downloads, log, nextUuid, nCalls, issued>>

genUpdateProgressForLessonWrite(t, w) ==
  /\ tasks[t].op = "genUpdateProgressForLesson"
  /\ tasks[t].pc = "write"
  /\ w \in tasks[t].pending
  /\ store' = Perform(store, w)
  /\ tasks' = [tasks EXCEPT ![t] = Performed(@, w, "done")]
  /\ UNCHANGED <<last, downloads, log, nextUuid, nCalls, issued>>

(***************************************************************************)
(* genMarkLessonFinished (lines 106-133): the same read and three writes   *)
(* with finished: true; once Promise.all has resolved, the auto-delete-    *)
(* finished preference is read, then DownloadManager.genIsDownloaded is    *)
(* asked, then DownloadManager.genDeleteDownload is called.                *)
(***************************************************************************)
genMarkLessonFinishedCall(t, course, lesson) ==
  /\ tasks[t].op = "idle"
  /\ nCalls < MaxCalls
  /\ tasks' = [tasks EXCEPT ![t] =
       [NewTask("genMarkLessonFinished", "read", course, lesson, JNull, "")
          EXCEPT !.accesses = 1]]
  /\ nCalls' = nCalls + 1
  /\ issued' = issued \cup {<<course, lesson>>}
  /\ UNCHANGED <<store, downloads, log, nextUuid>>
  /\ last' = IdleTask

genMarkLessonFinishedRead(t) ==
  /\ tasks[t].op = "genMarkLessonFinished"
  /\ tasks[t].pc = "read"
  /\ LET stored == getItem(store, ProgressKey(tasks[t].course, tasks[t].lesson))
         task == [tasks[t] EXCEPT !.seen = stored]
         progressObject == ProgressForLessonValue(stored)
     IN tasks' = [tasks EXCEPT ![t] =
          IF IsError(progressObject) THEN Reject(task, progressObject)
          ELSE [task EXCEPT !.pc = "write", !.accesses = @ + 3,
                            !.pending = MarkFinishedRequests(
                               task.course, task.lesson, progressObject)]]
  /\ UNCHANGED <<store, last, downloads, log, nextUuid, nCalls, issued>>

\* Fault variant: the call goes on to the download side effect once every
\* write has settled, also when the store rejected one (Promise.allSettled).
genMarkLessonFinishedWrite_continuesAfterFailure(t, w) ==
  /\ tasks[t].op = "genMarkLessonFinished"
  /\ tasks[t].pc = "write"
  /\ w \in tasks[t].pending
  /\ store' = Perform(store, w)
  /\ tasks' = [tasks EXCEPT ![t] =
       IF @.pending = {w}
       THEN [@ EXCEPT !.pending = {}, !.pc = "preference", !.accesses = @ + 1]
       ELSE [@ EXCEPT !.pending = @ \ {w}]]
  /\ UNCHANGED <<last, downloads, log, nextUuid, nCalls, issued>>

genMarkLessonFinishedWrite(t, w) ==
  /\ tasks[t].op = "genMarkLessonFinished"
  /\ tasks[t].pc = "write"
  /\ w \in tasks[t].pending
  /\ store' = Perform(store, w)
  /\ tasks' = [tasks EXCEPT ![t] =
       LET after == Performed(@, w, "preference")
       IN IF after.pc = "preference" THEN [after EXCEPT !.accesses = @ + 1] ELSE after]
  /\ UNCHANGED <<last, downloads, log, nextUuid, nCalls, issued>>

\* Fault variant: the preference is not consulted.
genMarkLessonFinishedPreference_ignored(t) ==
  /\ tasks[t].op = "genMarkLessonFinished"
  /\ tasks[t].pc = "preference"
  /\ tasks' = [tasks EXCEPT ![t] = [@ EXCEPT !.pc = "isDownloaded"]]
  /\ UNCHANGED <<store, last, downloads, log, nextUuid, nCalls, issued>>

\* await genPreferenceAutoDeleteFinished(): a false value ends the call.
genMarkLessonFinishedPreference(t) ==
  /\ tasks[t].op = "genMarkLessonFinished"
  /\ tasks[t].pc = "preference"
  /\ LET autoDelete == PreferenceValue(AUTO_DELETE_FINISHED,
                         getItem(store, PreferenceKey(AUTO_DELETE_FINISHED)))
     IN tasks' = [tasks EXCEPT ![t] =
          IF autoDelete = JBool(TRUE) THEN [@ EXCEPT !.pc = "isDownloaded"]
          ELSE Resolve(@, JNull)]
  /\ UNCHANGED <<store, last, downloads, log, nextUuid, nCalls, issued>>

\* await DownloadManager.genIsDownloaded(course, lesson).
genMarkLessonFinishedIsDownloaded(t) ==
  /\ tasks[t].op = "genMarkLessonFinished"
  /\ tasks[t].pc = "isDownloaded"
  /\ tasks' = [tasks EXCEPT ![t] =
       IF <<@.course, @.lesson.v>> \in downloads THEN [@ EXCEPT !.pc = "deleteDownload"]
       ELSE Resolve(@, JNull)]
  /\ UNCHANGED <<store, last, downloads, log, nextUuid, nCalls, issued>>

\* await DownloadManager.genDeleteDownload(course, lesson).
genMarkLessonFinishedDeleteDownload(t) ==
  /\ tasks[t].op = "genMarkLessonFinished"
  /\ tasks[t].pc = "deleteDownload"
  /\ downloads' = downloads \ {<<tasks[t].course, tasks[t].lesson.v>>}
  /\ tasks' = [tasks EXCEPT ![t] =
       Resolve([@ EXCEPT !.deleted = Append(@, <<tasks[t].course, tasks[t].lesson.v>>)],
               JNull)]
  /\ UNCHANGED <<store, last, log, nextUuid, nCalls, issued>>

(***************************************************************************)
(* genDeleteProgressForCourse (lines 135-150): read the most recent        *)
(* course, then hand the removals to Promise.all.                          *)
(***************************************************************************)
\* Fault variant: the most recent course is removed whatever it holds.
DeleteProgressRequests_alwaysGlobal(course, shouldRemoveGlobalRecentCourse) ==
  {RemoveRequest(MostRecentLessonKey(course)), RemoveRequest(MostRecentCourseKey)}
  \cup {RemoveRequest(ProgressKey(course, JNum(getLessonIndices(course)[i]))) :
          i \in 1..Len(getLessonIndices(course))}

\* Fault variant: the most recent lesson of the course is not removed.
DeleteProgressRequests_keepsLessonPointer(course, shouldRemoveGlobalRecentCourse) ==
  (IF shouldRemoveGlobalRecentCourse THEN {RemoveRequest(MostRecentCourseKey)} ELSE {})
  \cup {RemoveRequest(ProgressKey(course, JNum(getLessonIndices(course)[i]))) :
          i \in 1..Len(getLessonIndices(course))}

\* Fault variant: the record of every lesson played is removed, not only those
\* of the lessons the catalog reports.
DeleteProgressRequests_removesPlayedLessons(course, shouldRemoveGlobalRecentCourse) ==
  {RemoveRequest(MostRecentLessonKey(course))}
  \cup (IF shouldRemoveGlobalRecentCourse THEN {RemoveRequest(MostRecentCourseKey)} ELSE {})
  \cup {RemoveRequest(ProgressKey(course, JNum(cl[2]))) :
          cl \in {p \in PlayedLessons : p[1] = course}}

\* The removals handed to Promise.all (lines 141-149).
DeleteProgressRequests(course, shouldRemoveGlobalRecentCourse) ==
  {RemoveRequest(MostRecentLessonKey(course))}
  \cup (IF shouldRemoveGlobalRecentCourse THEN {RemoveRequest(MostRecentCourseKey)} ELSE {})
  \cup {RemoveRequest(ProgressKey(course, JNum(getLessonIndices(course)[i]))) :
          i \in 1..Len(getLessonIndices(course))}

genDeleteProgressForCourseCall(t, course) ==
  /\ tasks[t].op = "idle"
  /\ nCalls < MaxCalls
  /\ tasks' = [tasks EXCEPT ![t] =
       [NewTask("genDeleteProgressForCourse", "read", course, JNull, JNull, "")
          EXCEPT !.accesses = 1]]
  /\ nCalls' = nCalls + 1
  /\ UNCHANGED <<store, downloads, log, nextUuid, issued>>
  /\ last' = IdleTask

genDeleteProgressForCourseRead(t) ==
  /\ tasks[t].op = "genDeleteProgressForCourse"
  /\ tasks[t].pc = "read"
  /\ LET task == [tasks[t] EXCEPT !.seen = getItem(store, MostRecentCourseKey)]
         shouldRemoveGlobalRecentCourse ==
           getItem(store, MostRecentCourseKey) = JStr(task.course)
         requests == DeleteProgressRequests(task.course, shouldRemoveGlobalRecentCourse)
     IN tasks' = [tasks EXCEPT ![t] =
          [task EXCEPT !.pc = "write", !.pending = requests,
                       !.accesses = @ + Cardinality(requests)]]
  /\ UNCHANGED <<store, last, downloads, log, nextUuid, nCalls, issued>>

\* Fault variant: the most recent course is removed only if it still names the
\* course when the removal is performed.
genDeleteProgressForCourseRemove_ifStillCurrent(t, w) ==
  /\ tasks[t].op = "genDeleteProgressForCourse"
  /\ tasks[t].pc = "write"
  /\ w \in tasks[t].pending
  /\ store' = IF w.key = MostRecentCourseKey
                 /\ getItem(store, MostRecentCourseKey) # JStr(tasks[t].course)
              THEN store
              ELSE Perform(store, w)
  /\ tasks' = [tasks EXCEPT ![t] = Performed(@, w, "done")]
  /\ UNCHANGED <<last, downloads, log, nextUuid, nCalls, issued>>

genDeleteProgressForCourseRemove(t, w) ==
  /\ tasks[t].op = "genDeleteProgressForCourse"
  /\ tasks[t].pc = "write"
  /\ w \in tasks[t].pending
  /\ store' = Perform(store, w)
  /\ tasks' = [tasks EXCEPT ![t] = Performed(@, w, "done")]
  /\ UNCHANGED <<last, downloads, log, nextUuid, nCalls, issued>>

(***************************************************************************)
(* genMetricsToken and genDeleteMetricsToken (lines 152-165).              *)
(***************************************************************************)
\* uuid(): a token no earlier call returned.
uuid(n) == "uuid-" \o NatToString(n)

genMetricsTokenCall(t) ==
  /\ tasks[t].op = "idle"
  /\ nCalls < MaxCalls
  /\ tasks' = [tasks EXCEPT ![t] =
       [NewTask("genMetricsToken", "read", "", JNull, JNull, "") EXCEPT !.accesses = 1]]
  /\ nCalls' = nCalls + 1
  /\ UNCHANGED <<store, last, downloads, log, nextUuid, issued>>

\* Fault variant: a token is created whether or not one is stored.
genMetricsTokenRead_alwaysCreates(t) ==
  /\ tasks[t].op = "genMetricsToken"
  /\ tasks[t].pc = "read"
  /\ tasks' = [tasks EXCEPT ![t] =
       [@ EXCEPT !.pc = "write", !.val = JStr(uuid(nextUuid)), !.accesses = @ + 1,
                 !.seen = getItem(store, MetricsTokenKey),
                 !.pending = {SetRequest(MetricsTokenKey, uuid(nextUuid))}]]
  /\ nextUuid' = nextUuid + 1
  /\ UNCHANGED <<store, last, downloads, log, nCalls, issued>>

\* if (storedToken) is false for null and for the empty string.
genMetricsTokenRead(t) ==
  /\ tasks[t].op = "genMetricsToken"
  /\ tasks[t].pc = "read"
  /\ LET storedToken == getItem(store, MetricsTokenKey)
         createdToken == uuid(nextUuid)
     IN IF storedToken # JNull /\ storedToken # JStr("")
        THEN /\ tasks' = [tasks EXCEPT ![t] =
                  Resolve([@ EXCEPT !.seen = storedToken], storedToken)]
             /\ UNCHANGED nextUuid
        ELSE /\ tasks' = [tasks EXCEPT ![t] =
                  [@ EXCEPT !.pc = "write", !.val = JStr(createdToken),
                            !.accesses = @ + 1, !.seen = storedToken,
                            !.pending = {SetRequest(MetricsTokenKey, createdToken)}]]
             /\ nextUuid' = nextUuid + 1
  /\ UNCHANGED <<store, last, downloads, log, nCalls, issued>>

\* Fault variant: a token stored meanwhile is kept and returned.
genMetricsTokenWrite_keepsFirst(t, w) ==
  /\ tasks[t].op = "genMetricsToken"
  /\ tasks[t].pc = "write"
  /\ w \in tasks[t].pending
  /\ store' = IF MetricsTokenKey \in DOMAIN store THEN store ELSE Perform(store, w)
  /\ tasks' = [tasks EXCEPT ![t] =
       Resolve([@ EXCEPT !.pending = {}], getItem(store', MetricsTokenKey))]
  /\ UNCHANGED <<last, downloads, log, nextUuid, nCalls, issued>>

genMetricsTokenWrite(t, w) ==
  /\ tasks[t].op = "genMetricsToken"
  /\ tasks[t].pc = "write"
  /\ w \in tasks[t].pending
  /\ store' = Perform(store, w)
  /\ tasks' = [tasks EXCEPT ![t] = Resolve([@ EXCEPT !.pending = {}], @.val)]
  /\ UNCHANGED <<last, downloads, log, nextUuid, nCalls, issued>>

genDeleteMetricsTokenCall(t) ==
  /\ tasks[t].op = "idle"
  /\ nCalls < MaxCalls
  /\ tasks' = [tasks EXCEPT ![t] =
       [NewTask("genDeleteMetricsToken", "write", "", JNull, JNull, "")
          EXCEPT !.accesses = 1, !.pending = {RemoveRequest(MetricsTokenKey)}]]
  /\ nCalls' = nCalls + 1
  /\ UNCHANGED <<store, downloads, log, nextUuid, issued>>
  /\ last' = IdleTask

genDeleteMetricsTokenRemove(t, w) ==
  /\ tasks[t].op = "genDeleteMetricsToken"
  /\ tasks[t].pc = "write"
  /\ w \in tasks[t].pending
  /\ store' = Perform(store, w)
  /\ tasks' = [tasks EXCEPT ![t] = Performed(@, w, "done")]
  /\ UNCHANGED <<last, downloads, log, nextUuid, nCalls, issued>>

(***************************************************************************)
(* preference(name, defaultValue, fromString) (lines 168-192): the getter  *)
(* and the setter of one preference.                                       *)
(***************************************************************************)
PreferenceGetCall(t, name) ==
  /\ tasks[t].op = "idle"
  /\ tasks' = [tasks EXCEPT ![t] =
       [NewTask("getPreference", "read", "", JNull, JNull, name) EXCEPT !.accesses = 1]]
  /\ UNCHANGED <<store, last, downloads, log, nextUuid, nCalls, issued>>

PreferenceGetRead(t) ==
  /\ tasks[t].op = "getPreference"
  /\ tasks[t].pc = "read"
  /\ LET val == getItem(store, PreferenceKey(tasks[t].name))
         value == PreferenceValue(tasks[t].name, val)
         task == [tasks[t] EXCEPT !.seen = val]
     IN tasks' = [tasks EXCEPT ![t] =
          IF IsError(value) THEN Reject(task, value) ELSE Resolve(task, value)]
  /\ UNCHANGED <<store, last, downloads, log, nextUuid, nCalls, issued>>

\* The event the setter hands to log() (lines 185-189).
SetPreferenceEvent(name, val) ==
  [action |-> "set_preference", surface |-> name, setting_value |-> val]

\* Fault variant: the setter goes to log() without a store write.
PreferenceSetCall_noWrite(t, name, val) ==
  /\ tasks[t].op = "idle"
  /\ nCalls < MaxCalls
  /\ tasks' = [tasks EXCEPT ![t] = NewTask("setPreference", "log", "", JNull, val, name)]
  /\ nCalls' = nCalls + 1
  /\ last' = IdleTask
  /\ UNCHANGED <<store, downloads, log, nextUuid, issued>>

PreferenceSetCall(t, name, val) ==
  /\ tasks[t].op = "idle"
  /\ nCalls < MaxCalls
  /\ tasks' = [tasks EXCEPT ![t] =
       [NewTask("setPreference", "write", "", JNull, val, name)
          EXCEPT !.accesses = 1,
                 !.pending = {SetRequest(PreferenceKey(name), ToStringCoercion(val))}]]
  /\ nCalls' = nCalls + 1
  /\ UNCHANGED <<store, downloads, log, nextUuid, issued>>
  /\ last' = IdleTask

PreferenceSetWrite(t, w) ==
  /\ tasks[t].op = "setPreference"
  /\ tasks[t].pc = "write"
  /\ w \in tasks[t].pending
  /\ store' = Perform(store, w)
  /\ tasks' = [tasks EXCEPT ![t] = Performed(@, w, "log")]
  /\ UNCHANGED <<last, downloads, log, nextUuid, nCalls, issued>>

PreferenceSetLog(t) ==
  /\ tasks[t].op = "setPreference"
  /\ tasks[t].pc = "log"
  /\ log' = Append(log, SetPreferenceEvent(tasks[t].name, tasks[t].val))
  /\ tasks' = [tasks EXCEPT ![t] = Resolve(@, JNull)]
  /\ UNCHANGED <<store, last, downloads, nextUuid, nCalls, issued>>

(***************************************************************************)
(* The download manager stores a lesson (not an operation of this file:    *)
(* the state DownloadManager.genIsDownloaded reports).                     *)
(***************************************************************************)
Download(course, lesson) ==
  /\ nCalls < MaxCalls
  /\ <<course, lesson>> \notin downloads
  /\ downloads' = downloads \cup {<<course, lesson>>}
  /\ nCalls' = nCalls + 1
  /\ last' = IdleTask
  /\ UNCHANGED <<store, tasks, log, nextUuid, issued>>

(***************************************************************************)
(* The store rejects a request (an I/O failure).  A rejected read rejects  *)
(* the call that awaits it.  A rejected write rejects Promise.all, and     *)
(* with it the call, at once; the other requests handed to Promise.all     *)
(* stay issued and the store still performs or rejects each of them.       *)
(***************************************************************************)
StoreRejectsRead(t) ==
  /\ tasks[t].pc \in {"read", "preference"}
  /\ tasks' = [tasks EXCEPT ![t] = Reject(@, JStoreError)]
  /\ UNCHANGED <<store, last, downloads, log, nextUuid, nCalls, issued>>

\* Fault variant: a rejected write undoes the writes of the call the store has
\* performed.
StoreRejectsWrite_rollsBack(t, w) ==
  /\ tasks[t].pc = "write"
  /\ w \in tasks[t].pending
  /\ tasks' = [tasks EXCEPT ![t] =
       [@ EXCEPT !.pending = @ \ {w},
                 !.failed = @ \cup {w},
                 !.status = "rejected",
                 !.result = IF tasks[t].status = "running" THEN JStoreError ELSE @,
                 !.pc = IF tasks[t].pending = {w} THEN "done" ELSE "write"]]
  /\ store' = tasks[t].pre
  /\ UNCHANGED <<last, downloads, log, nextUuid, nCalls, issued>>

StoreRejectsWrite(t, w) ==
  /\ tasks[t].pc = "write"
  /\ w \in tasks[t].pending
  /\ tasks' = [tasks EXCEPT ![t] =
       [@ EXCEPT !.pending = @ \ {w},
                 !.failed = @ \cup {w},
                 !.status = "rejected",
                 !.result = IF tasks[t].status = "running" THEN JStoreError ELSE @,
                 !.pc = IF tasks[t].pending = {w} THEN "done" ELSE "write"]]
  /\ UNCHANGED <<store, last, downloads, log, nextUuid, nCalls, issued>>

\* The calls that issue no write.
ReadOperations ==
  {"genMostRecentListenedLessonForCourse", "genMostRecentListenedCourse",
   "genProgressForLesson", "getPreference"}

(***************************************************************************)
(* The caller receives the outcome; the call is over.                      *)
(***************************************************************************)
Return(t) ==
  /\ tasks[t].pc = "done"
  /\ last' = IF tasks[t].op \in ReadOperations THEN last
             ELSE IF \A u \in TaskIds \ {t} : tasks[u].op = "idle" THEN tasks[t]
             ELSE IdleTask
  /\ tasks' = [tasks EXCEPT ![t] = IdleTask]
  /\ UNCHANGED <<store, downloads, log, nextUuid, nCalls, issued>>

\* No call is in flight.
Quiet == \A t \in TaskIds : tasks[t].op = "idle"


(***************************************************************************)
(* Sequential use of the progress accessors: a call is issued only when no *)
(* call is in flight, the store performs every request, and the download   *)
(* manager stores lessons only between calls.                              *)
(***************************************************************************)
Issue(t) ==
  \/ \E cl \in PlayedLessons, progress \in ProgressValues :
       genUpdateProgressForLessonCall(t, cl[1], JNum(cl[2]), progress)
  \/ \E cl \in PlayedLessons : genMarkLessonFinishedCall(t, cl[1], JNum(cl[2]))
  \/ \E course \in Courses : genDeleteProgressForCourseCall(t, course)
  \/ \E cl \in PlayedLessons : genProgressForLessonCall(t, cl[1], JNum(cl[2]))
  \/ \E course \in Courses : genProgressForLessonCall(t, course, JNull)
  \/ \E course \in Courses : genMostRecentListenedLessonForCourseCall(t, course)
  \/ genMostRecentListenedCourseCall(t)
  \/ \E b \in BOOLEAN : PreferenceSetCall(t, AUTO_DELETE_FINISHED, JBool(b))

Step(t) ==
  \/ genUpdateProgressForLessonRead(t)
  \/ \E w \in tasks[t].pending : genUpdateProgressForLessonWrite(t, w)
  \/ genMarkLessonFinishedRead(t)
  \/ \E w \in tasks[t].pending : genMarkLessonFinishedWrite(t, w)
  \/ genMarkLessonFinishedPreference(t)
  \/ genMarkLessonFinishedIsDownloaded(t)
  \/ genMarkLessonFinishedDeleteDownload(t)
  \/ genDeleteProgressForCourseRead(t)
  \/ \E w \in tasks[t].pending : genDeleteProgressForCourseRemove(t, w)
  \/ genProgressForLessonRead(t)
  \/ genMostRecentListenedLessonForCourseRead(t)
  \/ genMostRecentListenedCourseRead(t)
  \/ \E w \in tasks[t].pending : PreferenceSetWrite(t, w)
  \/ PreferenceSetLog(t)
  \/ Return(t)

Next ==
  \/ Quiet /\ Issue(1)
  \/ Quiet /\ \E cl \in PlayedLessons : Download(cl[1], cl[2])
  \/ Step(1)

Spec == Init /\ [][Next]_vars


(***************************************************************************)
(* Properties of sequential use (Spec).                                    *)
(***************************************************************************)
\* The finished flag and the progress of the record st holds for (course,
\* lesson): false and null when it holds none.
StoredFinished(st, course, lesson) ==
  IF ProgressKey(course, lesson) \in DOMAIN st
  THEN PropGet(JSONparse(st[ProgressKey(course, lesson)]), "finished")
  ELSE JBool(FALSE)

StoredProgress(st, course, lesson) ==
  IF ProgressKey(course, lesson) \in DOMAIN st
  THEN PropGet(JSONparse(st[ProgressKey(course, lesson)]), "progress")
  ELSE JNull

\* Task t is a read that has completed, the call before it was a successful
\* op, and no state-changing call came between.
ReadFollows(t, read, op) ==
  /\ tasks[t].op = read
  /\ tasks[t].pc = "done"
  /\ last.op = op
  /\ last.status = "resolved"

SameLesson(t) == tasks[t].course = last.course /\ tasks[t].lesson = last.lesson

\* C1 as stated: genProgressForLesson(C, L) after genUpdateProgressForLesson(C,
\* L, N) returns progress N and the finished flag stored before, for every
\* number N.
C1_ProgressIsN ==
  \A t \in TaskIds :
    ReadFollows(t, "genProgressForLesson", "genUpdateProgressForLesson") /\ SameLesson(t)
    => /\ tasks[t].status = "resolved"
       /\ PropGet(tasks[t].result, "progress") = last.val
       /\ PropGet(tasks[t].result, "finished")
            = StoredFinished(last.pre, last.course, last.lesson)

\* C1 amended: genProgressForLesson(C, L) after genUpdateProgressForLesson(C,
\* L, N) returns the finished flag stored before the call (false if no record
\* was stored) and progress N when N is a finite number; when N is NaN the
\* progress it returns is null.
C1_ProgressIsFiniteN ==
  \A t \in TaskIds :
    ReadFollows(t, "genProgressForLesson", "genUpdateProgressForLesson") /\ SameLesson(t)
    => /\ tasks[t].status = "resolved"
       /\ PropGet(tasks[t].result, "progress")
            = (IF last.val.t = "number" THEN last.val ELSE JNull)
       /\ PropGet(tasks[t].result, "finished")
            = StoredFinished(last.pre, last.course, last.lesson)

\* C1 witness: the read follows an update of a record that was finished.
C1_Witness ==
  /\ ReadFollows(1, "genProgressForLesson", "genUpdateProgressForLesson")
  /\ SameLesson(1)
  /\ last.val = JNum(42)
  /\ StoredFinished(last.pre, last.course, last.lesson) = JBool(TRUE)
  /\ PropGet(tasks[1].result, "progress") = JNum(42)

\* C2: genProgressForLesson(C, L) after genMarkLessonFinished(C, L) returns
\* finished = true and the progress stored before the call, null if no record
\* was stored.
C2_FinishedKeepsProgress ==
  \A t \in TaskIds :
    ReadFollows(t, "genProgressForLesson", "genMarkLessonFinished") /\ SameLesson(t)
    => /\ tasks[t].status = "resolved"
       /\ PropGet(tasks[t].result, "finished") = JBool(TRUE)
       /\ PropGet(tasks[t].result, "progress")
            = StoredProgress(last.pre, last.course, last.lesson)

\* C2 witness: the read follows the marking of a lesson that had no record.
C2_Witness ==
  /\ ReadFollows(1, "genProgressForLesson", "genMarkLessonFinished")
  /\ SameLesson(1)
  /\ ProgressKey(last.course, last.lesson) \notin DOMAIN last.pre
  /\ PropGet(tasks[1].result, "progress") = JNull

\* C3: after genUpdateProgressForLesson(C, L, N) or genMarkLessonFinished(C, L),
\* genMostRecentListenedCourse returns C and
\* genMostRecentListenedLessonForCourse(C) returns L, whatever the pointers
\* held before.
C3_PointersFollowLastCall ==
  \A t \in TaskIds :
    \A op \in {"genUpdateProgressForLesson", "genMarkLessonFinished"} :
      /\ ReadFollows(t, "genMostRecentListenedCourse", op)
         => tasks[t].result = JStr(last.course)
      /\ ReadFollows(t, "genMostRecentListenedLessonForCourse", op)
           /\ tasks[t].course = last.course
         => tasks[t].result = last.lesson

\* C3 witness: before the call the pointers held another course and a higher
\* lesson of this course.
C3_Witness ==
  /\ ReadFollows(1, "genMostRecentListenedLessonForCourse", "genUpdateProgressForLesson")
  /\ tasks[1].course = last.course
  /\ getItem(last.pre, MostRecentCourseKey) = JStr("german")
  /\ last.course = "spanish"
  /\ getItem(last.pre, MostRecentLessonKey("spanish")) = JStr("12")
  /\ tasks[1].result = JNum(0)

\* C4: when genDeleteProgressForCourse(C) has completed, no progress key of a
\* lesson the catalog reports for C is stored, the most recent lesson of C is
\* not stored, and the most recent course is not stored if it held C before
\* the call and is as before the call otherwise.
C4_DeleteProgressForCourse ==
  \A t \in TaskIds :
    tasks[t].op = "genDeleteProgressForCourse" /\ tasks[t].pc = "done"
    => LET course == tasks[t].course
           before == getItem(tasks[t].pre, MostRecentCourseKey)
       IN /\ tasks[t].status = "resolved"
          /\ \A i \in 1..Len(getLessonIndices(course)) :
               ProgressKey(course, JNum(getLessonIndices(course)[i])) \notin DOMAIN store
          /\ MostRecentLessonKey(course) \notin DOMAIN store
          /\ getItem(store, MostRecentCourseKey)
               = (IF before = JStr(course) THEN JNull ELSE before)

\* C4 witness: the course had a record and the most recent course was another.
C4_Witness ==
  /\ tasks[1].op = "genDeleteProgressForCourse"
  /\ tasks[1].pc = "done"
  /\ tasks[1].course = "spanish"
  /\ ProgressKey("spanish", JNum(1)) \in DOMAIN tasks[1].pre
  /\ getItem(tasks[1].pre, MostRecentCourseKey) = JStr("german")
  /\ getItem(store, MostRecentCourseKey) = JStr("german")

\* The auto-delete-finished preference is enabled in store st.
AutoDeleteEnabled(st) ==
  /\ PreferenceKey(AUTO_DELETE_FINISHED) \in DOMAIN st
  /\ st[PreferenceKey(AUTO_DELETE_FINISHED)] = "true"

\* C5: a completed genMarkLessonFinished(C, L) has called genDeleteDownload(C,
\* L) once if the preference was enabled and (C, L) was downloaded, and has
\* not called it otherwise; no other download is deleted.
C5_DeleteDownloadOnce ==
  \A t \in TaskIds :
    tasks[t].op = "genMarkLessonFinished" /\ tasks[t].pc = "done"
    => LET pair == <<tasks[t].course, tasks[t].lesson.v>>
           expected == AutoDeleteEnabled(tasks[t].pre) /\ pair \in tasks[t].preDownloads
       IN /\ tasks[t].status = "resolved"
          /\ tasks[t].deleted = (IF expected THEN <<pair>> ELSE <<>>)
          /\ downloads = (IF expected THEN tasks[t].preDownloads \ {pair}
                          ELSE tasks[t].preDownloads)

\* C5 witness: the preference was enabled, the lesson downloaded, and the call
\* deleted the download.
C5_Witness ==
  /\ tasks[1].op = "genMarkLessonFinished"
  /\ tasks[1].pc = "done"
  /\ AutoDeleteEnabled(tasks[1].pre)
  /\ <<tasks[1].course, tasks[1].lesson.v>> \in tasks[1].preDownloads
  /\ Len(tasks[1].deleted) = 1


(***************************************************************************)
(* Sequential use of the metrics token, on a store that may reject any     *)
(* request.                                                                *)
(***************************************************************************)
NextMetrics ==
  \/ Quiet /\ genMetricsTokenCall(1)
  \/ Quiet /\ genDeleteMetricsTokenCall(1)
  \/ genMetricsTokenRead(1)
  \/ \E w \in tasks[1].pending : genMetricsTokenWrite(1, w)
  \/ \E w \in tasks[1].pending : genDeleteMetricsTokenRemove(1, w)
  \/ StoreRejectsRead(1)
  \/ \E w \in tasks[1].pending : StoreRejectsWrite(1, w)
  \/ Return(1)

SpecMetrics == Init /\ [][NextMetrics]_vars

\* C6: a completed genMetricsToken returns the token the store holds; it
\* returns what the genMetricsToken before it returned when no
\* genDeleteMetricsToken came between; a completed genDeleteMetricsToken
\* leaves no token stored; and the genMetricsToken after it creates a token
\* that differs from the one stored before the deletion.
C6_MetricsToken ==
  \A t \in TaskIds :
    /\ tasks[t].op = "genMetricsToken" /\ tasks[t].pc = "done"
          /\ tasks[t].status = "resolved"
       => /\ tasks[t].result = getItem(store, MetricsTokenKey)
          /\ tasks[t].result.t = "string"
          /\ last.op = "genMetricsToken" /\ last.status = "resolved"
             => tasks[t].result = last.result
          /\ last.op = "genDeleteMetricsToken" /\ last.status = "resolved"
             => /\ tasks[t].result # getItem(last.pre, MetricsTokenKey)
                /\ MetricsTokenKey \notin DOMAIN tasks[t].pre
    /\ tasks[t].op = "genDeleteMetricsToken" /\ tasks[t].pc = "done"
          /\ tasks[t].status = "resolved"
       => MetricsTokenKey \notin DOMAIN store

\* C6 witness: a token was stored, then deleted, and the call created another.
C6_Witness ==
  /\ tasks[1].op = "genMetricsToken"
  /\ tasks[1].pc = "done"
  /\ tasks[1].status = "resolved"
  /\ last.op = "genDeleteMetricsToken"
  /\ last.status = "resolved"
  /\ getItem(last.pre, MetricsTokenKey) = JStr(uuid(0))
  /\ tasks[1].result = JStr(uuid(1))


(***************************************************************************)
(* Sequential use of the eight preferences, on a store that may reject any *)
(* request.                                                                *)
(***************************************************************************)
\* The values of rating-button-dismissed.
DismissedValues == {JObj(<<Prop("dismissed", JBool(b))>>) : b \in BOOLEAN}

\* The values callers pass to the setter of preference name: booleans,
\* quality names, the JSON text of a rating-button-dismissed object, and
\* such an object itself, not serialized.
SetterValues(name) ==
  CASE name \in BooleanPreferences -> {JBool(b) : b \in BOOLEAN}
    [] name \in StringPreferences -> {JStr("low"), JStr("high")}
    [] name \in JSONPreferences ->
         {JStr(JSONstringify(V)) : V \in DismissedValues}
         \cup {JObj(<<Prop("dismissed", JBool(TRUE))>>)}

NextPreferences ==
  \/ Quiet /\ \E name \in Preference : PreferenceGetCall(1, name)
  \/ Quiet /\ \E name \in Preference : \E val \in SetterValues(name) :
       PreferenceSetCall(1, name, val)
  \/ PreferenceGetRead(1)
  \/ \E w \in tasks[1].pending : PreferenceSetWrite(1, w)
  \/ PreferenceSetLog(1)
  \/ StoreRejectsRead(1)
  \/ \E w \in tasks[1].pending : StoreRejectsWrite(1, w)
  \/ Return(1)

SpecPreferences == Init /\ [][NextPreferences]_vars

\* The preferences for which the store has performed a setter's write: the
\* setter is then at its log() call, or has called it.
WrittenPreferences ==
  {log[i].surface : i \in 1..Len(log)}
  \cup {tasks[t].name : t \in {u \in TaskIds : tasks[u].op = "setPreference"
                                               /\ tasks[u].pc = "log"}}

\* C7: while no setter of preference P has completed a write, the key of P
\* is not stored (no getter persists the default) and every completed getter
\* of P has returned P's default value.
C7_DefaultBeforeSet ==
  \A name \in Preference \ WrittenPreferences :
    /\ PreferenceKey(name) \notin DOMAIN store
    /\ \A t \in TaskIds :
         tasks[t].op = "getPreference" /\ tasks[t].name = name
           /\ tasks[t].pc = "done" /\ tasks[t].status = "resolved"
         => tasks[t].result
              = (CASE name \in {AUTO_DELETE_FINISHED, KILLSWITCH_COURSE_VERSION_V1}
                        -> JBool(FALSE)
                   [] name \in {DOWNLOAD_ONLY_ON_WIFI, ALLOW_DATA_COLLECTION,
                                IS_FIRST_LOAD} -> JBool(TRUE)
                   [] name = STREAM_QUALITY -> JStr("low")
                   [] name = DOWNLOAD_QUALITY -> JStr("high")
                   [] name = RATING_BUTTON_DISMISSED
                        -> JObj(<<Prop("dismissed", JBool(FALSE))>>))

\* C7 witness: after another preference was set, a getter of
\* rating-button-dismissed, never set, has returned its default.
C7_Witness ==
  /\ tasks[1].op = "getPreference"
  /\ tasks[1].name = RATING_BUTTON_DISMISSED
  /\ tasks[1].pc = "done"
  /\ tasks[1].status = "resolved"
  /\ RATING_BUTTON_DISMISSED \notin WrittenPreferences
  /\ WrittenPreferences # {}

\* The round-trip law: a getter that follows a successful setter of the same
\* preference, and whose read the store does not reject, returns the boolean the setter was given (boolean-decoded
\* preferences), the string it was given (stream-quality, download-quality),
\* or the object whose JSON text it was given (rating-button-dismissed).
RoundTrip ==
  \A t \in TaskIds :
    ReadFollows(t, "getPreference", "setPreference") /\ tasks[t].name = last.name
      /\ tasks[t].result # JStoreError
    => /\ last.name \in BooleanPreferences /\ last.val.t = "boolean"
          => tasks[t].status = "resolved" /\ tasks[t].result = last.val
       /\ last.name \in {STREAM_QUALITY, DOWNLOAD_QUALITY} /\ last.val.t = "string"
          => tasks[t].status = "resolved" /\ tasks[t].result = last.val
       /\ last.name = RATING_BUTTON_DISMISSED
          => \A V \in DismissedValues :
               last.val = JStr(JSONstringify(V))
               => tasks[t].status = "resolved" /\ tasks[t].result = V

\* C8 as stated: the round-trip law, over six boolean-decoded preferences,
\* the two quality preferences and rating-button-dismissed, which are the
\* eight fixed preferences.
C8_RoundTripSixBoolean ==
  /\ RoundTrip
  /\ Cardinality(BooleanPreferences) = 6
  /\ Cardinality(BooleanPreferences) + Cardinality({STREAM_QUALITY, DOWNLOAD_QUALITY}) + 1
       = Cardinality(Preference)

\* C8 amended: the round-trip law, over the five boolean-decoded preferences,
\* the two quality preferences and rating-button-dismissed, which are the
\* eight fixed preferences.
C8_RoundTrip ==
  /\ RoundTrip
  /\ Cardinality(BooleanPreferences) = 5
  /\ BooleanPreferences \cup {STREAM_QUALITY, DOWNLOAD_QUALITY, RATING_BUTTON_DISMISSED}
       = Preference
  /\ Cardinality(Preference) = 8

\* C8 witness: a getter of rating-button-dismissed has returned the object
\* whose JSON text the setter before it was given.
C8_Witness ==
  /\ ReadFollows(1, "getPreference", "setPreference")
  /\ tasks[1].name = RATING_BUTTON_DISMISSED
  /\ last.name = RATING_BUTTON_DISMISSED
  /\ last.val = JStr("{\"dismissed\":true}")
  /\ tasks[1].result = JObj(<<Prop("dismissed", JBool(TRUE))>>)

\* C10: log() receives a set_preference event only from a setter whose store
\* write has been performed, at a moment when the store holds the value that
\* setter wrote; a setter whose write the store rejects is rejected with the
\* store's error and hands no event to log().
C10_LogAfterWrite ==
  [][/\ log' # log
        => \E t \in TaskIds :
             /\ tasks[t].op = "setPreference"
             /\ tasks[t].status = "running"
             /\ log' = Append(log, SetPreferenceEvent(tasks[t].name, tasks[t].val))
             /\ getItem(store, PreferenceKey(tasks[t].name))
                  = JStr(ToStringCoercion(tasks[t].val))
             /\ tasks'[t].status = "resolved"
     /\ \A t \in TaskIds :
          tasks[t].op = "setPreference" /\ tasks[t].status = "rejected"
          => /\ log' = log
             /\ tasks[t].pc = "done"
             /\ tasks[t].result = JStoreError
             /\ PreferenceKey(tasks[t].name) \in DOMAIN store
                => PreferenceKey(tasks[t].name) \in DOMAIN tasks[t].pre
                   /\ store[PreferenceKey(tasks[t].name)]
                        = tasks[t].pre[PreferenceKey(tasks[t].name)]
    ]_vars

\* C10 witness: the setter of allow-data-collection has logged its event and
\* the store holds "false".
C10_Witness ==
  /\ tasks[1].op = "setPreference"
  /\ tasks[1].name = ALLOW_DATA_COLLECTION
  /\ tasks[1].status = "resolved"
  /\ Len(log) > 0
  /\ log[Len(log)] = SetPreferenceEvent(ALLOW_DATA_COLLECTION, JBool(FALSE))
  /\ getItem(store, PreferenceKey(ALLOW_DATA_COLLECTION)) = JStr("false")


(***************************************************************************)
(* Overlapping progress mutations: up to two calls are in flight, and the  *)
(* store performs the requests they have issued in any order.              *)
(***************************************************************************)
\* The number of calls in one behaviour of overlapping calls.
MaxOverlapped == 2

\* The (course, lesson) pairs and the progress values of overlapping calls.
OverlappedLessons == {<<"spanish", 0>>, <<"spanish", 12>>, <<"german", 0>>}

OverlappedProgress == {JNum(42)}

IssueMutation(t) ==
  \/ \E cl \in OverlappedLessons, progress \in OverlappedProgress :
       genUpdateProgressForLessonCall(t, cl[1], JNum(cl[2]), progress)
  \/ \E cl \in OverlappedLessons : genMarkLessonFinishedCall(t, cl[1], JNum(cl[2]))
  \/ \E course \in Courses : genDeleteProgressForCourseCall(t, course)

StepMutation(t) ==
  \/ genUpdateProgressForLessonRead(t)
  \/ \E w \in tasks[t].pending : genUpdateProgressForLessonWrite(t, w)
  \/ genMarkLessonFinishedRead(t)
  \/ \E w \in tasks[t].pending : genMarkLessonFinishedWrite(t, w)
  \/ genMarkLessonFinishedPreference(t)
  \/ genDeleteProgressForCourseRead(t)
  \/ \E w \in tasks[t].pending : genDeleteProgressForCourseRemove(t, w)
  \/ Return(t)

\* A new call takes the lowest task id that is free.
FreeTask(t) ==
  /\ tasks[t].op = "idle"
  /\ \A u \in TaskIds : u < t => tasks[u].op # "idle"

NextConcurrent ==
  \E t \in TaskIds :
    \/ FreeTask(t) /\ nCalls < MaxOverlapped /\ IssueMutation(t)
    \/ StepMutation(t)

SpecConcurrent == Init /\ [][NextConcurrent]_vars

\* C9: if the most recent course key holds C, a progress mutation for course
\* C has been issued; if the most recent lesson key of C holds L, a progress
\* mutation for (C, L) has been issued.
C9_PointersWereIssued ==
  /\ MostRecentCourseKey \in DOMAIN store
     => \E cl \in issued : cl[1] = store[MostRecentCourseKey]
  /\ \A course \in Courses :
       MostRecentLessonKey(course) \in DOMAIN store
       => \E cl \in issued :
            cl[1] = course /\ cl[2] = parseInt(store[MostRecentLessonKey(course)])

\* C9 witness: two calls overlap, one a deletion, and a pointer of the
\* deleted course is stored.
C9_Witness ==
  /\ \E t \in TaskIds :
       /\ tasks[t].op = "genDeleteProgressForCourse"
       /\ tasks[t].course = "spanish"
       /\ tasks[t].pc = "done"
  /\ \E t \in TaskIds :
       /\ tasks[t].op = "genUpdateProgressForLesson"
       /\ tasks[t].course = "spanish"
       /\ tasks[t].pc = "done"
  /\ getItem(store, MostRecentLessonKey("spanish")) = JStr("12")
  /\ getItem(store, MostRecentCourseKey) = JNull


(***************************************************************************)
(* Further properties of sequential use (Spec).                            *)
(***************************************************************************)
\* The record genProgressForLesson returns for a key that is not stored.
DefaultProgress == JObj(<<Prop("finished", JBool(FALSE)), Prop("progress", JNull)>>)

\* C11: genProgressForLesson leaves the store as it was when called; with a
\* null lesson it issues no store request and returns null; with a lesson
\* whose key is not stored it returns {finished: false, progress: null}.
C11_ProgressReadOnly ==
  \A t \in TaskIds :
    tasks[t].op = "genProgressForLesson"
    => /\ store = tasks[t].pre
       /\ tasks[t].lesson = JNull
          => /\ tasks[t].pc = "done"
             /\ tasks[t].status = "resolved"
             /\ tasks[t].result = JNull
             /\ tasks[t].accesses = 0
       /\ /\ tasks[t].lesson # JNull
          /\ tasks[t].pc = "done"
          /\ ProgressKey(tasks[t].course, tasks[t].lesson) \notin DOMAIN tasks[t].pre
          => /\ tasks[t].status = "resolved"
             /\ tasks[t].result = DefaultProgress
             /\ tasks[t].accesses = 1

\* C11 witness: the store holds records of other lessons, and a read of a
\* lesson with no record has returned the default record.
C11_Witness ==
  /\ tasks[1].op = "genProgressForLesson"
  /\ tasks[1].pc = "done"
  /\ tasks[1].course = "spanish"
  /\ tasks[1].lesson = JNum(1)
  /\ ProgressKey("spanish", JNum(0)) \in DOMAIN store
  /\ ProgressKey("spanish", JNum(1)) \notin DOMAIN store
  /\ tasks[1].result = DefaultProgress


(***************************************************************************)
(* Sequential use of every accessor that writes: the progress mutations,   *)
(* the setters of the eight preferences and the metrics token.  The store  *)
(* performs every request and the download manager holds no lesson.        *)
(***************************************************************************)
\* The value each setter is given.
StoredSetterValue(name) ==
  CASE name \in BooleanPreferences -> JBool(TRUE)
    [] name \in StringPreferences -> JStr("high")
    [] name \in JSONPreferences -> JStr(JSONstringify(JObj(<<Prop("dismissed", JBool(TRUE))>>)))

IssueWriter(t) ==
  \/ \E cl \in OverlappedLessons, progress \in OverlappedProgress :
       genUpdateProgressForLessonCall(t, cl[1], JNum(cl[2]), progress)
  \/ \E cl \in OverlappedLessons : genMarkLessonFinishedCall(t, cl[1], JNum(cl[2]))
  \/ \E course \in Courses : genDeleteProgressForCourseCall(t, course)
  \/ \E name \in Preference : PreferenceSetCall(t, name, StoredSetterValue(name))
  \/ genMetricsTokenCall(t)
  \/ genDeleteMetricsTokenCall(t)

StepWriter(t) ==
  \/ genUpdateProgressForLessonRead(t)
  \/ \E w \in tasks[t].pending : genUpdateProgressForLessonWrite(t, w)
  \/ genMarkLessonFinishedRead(t)
  \/ \E w \in tasks[t].pending : genMarkLessonFinishedWrite(t, w)
  \/ genMarkLessonFinishedPreference(t)
  \/ genMarkLessonFinishedIsDownloaded(t)
  \/ genDeleteProgressForCourseRead(t)
  \/ \E w \in tasks[t].pending : genDeleteProgressForCourseRemove(t, w)
  \/ \E w \in tasks[t].pending : PreferenceSetWrite(t, w)
  \/ PreferenceSetLog(t)
  \/ genMetricsTokenRead(t)
  \/ \E w \in tasks[t].pending : genMetricsTokenWrite(t, w)
  \/ \E w \in tasks[t].pending : genDeleteMetricsTokenRemove(t, w)
  \/ Return(t)

NextWriters ==
  \/ Quiet /\ IssueWriter(1)
  \/ StepWriter(1)

SpecWriters == Init /\ [][NextWriters]_vars

\* The course ids and lesson indices the key functions are compared over:
\* the courses, and ids made of the fixed parts of other keys.
KeyCourses == Courses \cup {"spanish/0", "most-recent-course"}

KeyLessons == {0, 1, 10, 12}

\* What a key stands for: its category and the inputs its key function takes.
KeyInput(category, course, lesson, name) ==
  [category |-> category, course |-> course, lesson |-> lesson, name |-> name]

KeyInputs ==
  {KeyInput("progress", c, l, "") : c \in KeyCourses, l \in KeyLessons}
  \cup {KeyInput("most-recent-lesson", c, 0, "") : c \in KeyCourses}
  \cup {KeyInput("most-recent-course", "", 0, "")}
  \cup {KeyInput("preference", "", 0, name) : name \in Preference}
  \cup {KeyInput("metrics-token", "", 0, "")}
  \cup {KeyInput("autopause", "", 0, "")}

\* The key function of each category.
Key(d) ==
  CASE d.category = "progress" -> ProgressKey(d.course, JNum(d.lesson))
    [] d.category = "most-recent-lesson" -> MostRecentLessonKey(d.course)
    [] d.category = "most-recent-course" -> MostRecentCourseKey
    [] d.category = "preference" -> PreferenceKey(d.name)
    [] d.category = "metrics-token" -> MetricsTokenKey
    [] d.category = "autopause" -> AutopauseKey

\* The key of every key input.
KeyOf == [d \in KeyInputs |-> Key(d)]

\* Key inputs that differ have different keys: the key functions are
\* injective and their ranges are pairwise disjoint.
KeysInjective == \A d1 \in KeyInputs, d2 \in KeyInputs : KeyOf[d1] = KeyOf[d2] => d1 = d2

\* The categories of the keys the requests of an operation are for.
WrittenCategories(op) ==
  CASE op \in {"genUpdateProgressForLesson", "genMarkLessonFinished",
               "genDeleteProgressForCourse"}
         -> {"progress", "most-recent-lesson", "most-recent-course"}
    [] op = "setPreference" -> {"preference"}
    [] op \in {"genMetricsToken", "genDeleteMetricsToken"} -> {"metrics-token"}
    [] OTHER -> {}

\* C12: two key inputs that differ (in category, course, lesson or preference
\* name) have different keys; every stored key is the key of an input; and
\* while a call is in flight every key of a category the call does not write
\* reads as it did when the call was issued.
C12_KeysNeverCollide ==
  /\ KeysInjective
  /\ \A k \in DOMAIN store : \E d \in KeyInputs : KeyOf[d] = k
  /\ \A t \in TaskIds : \A d \in KeyInputs :
       tasks[t].op # "idle" /\ d.category \notin WrittenCategories(tasks[t].op)
       => getItem(store, KeyOf[d]) = getItem(tasks[t].pre, KeyOf[d])

\* C12 witness: the store holds a key of each category this file writes (a
\* record, both recency pointers, a preference, the metrics token), and a
\* setter has completed.
C12_Witness ==
  /\ {d.category : d \in {e \in KeyInputs : KeyOf[e] \in DOMAIN store}}
       = {"progress", "most-recent-lesson", "most-recent-course", "preference",
          "metrics-token"}
  /\ Cardinality(DOMAIN store) = 5
  /\ tasks[1].op = "setPreference"
  /\ tasks[1].pc = "done"


(***************************************************************************)
(* Overlapping progress mutations on a store in use: the store is the one  *)
(* a completed genUpdateProgressForLesson("spanish", 0, 0) leaves.         *)
(***************************************************************************)
\* The store after it has performed every request of a set.
RECURSIVE PerformAll(_, _)
PerformAll(st, requests) ==
  IF requests = {} THEN st
  ELSE LET w == CHOOSE r \in requests : TRUE
       IN PerformAll(Perform(st, w), requests \ {w})

StoreInUse ==
  PerformAll(EmptyStore,
             UpdateProgressRequests("spanish", JNum(0), JNum(0),
                                    ProgressForLessonValue(getItem(EmptyStore,
                                      ProgressKey("spanish", JNum(0))))))

InitOverlap ==
  /\ store = StoreInUse
  /\ tasks = [t \in TaskIds |-> IdleTask]
  /\ last = IdleTask
  /\ downloads = {}
  /\ log = <<>>
  /\ nextUuid = 0
  /\ nCalls = 0
  /\ issued = {<<"spanish", JNum(0)>>}

SpecOverlap == InitOverlap /\ [][NextConcurrent]_vars

\* The record a call that read the stored string seen writes: the update of
\* progress to N, and the marking as finished.
UpdatedRecord(seen, N) ==
  JObj(PropSet(Spread(ProgressForLessonValue(seen)), "progress", N))

FinishedRecord(seen) ==
  JObj(PropSet(Spread(ProgressForLessonValue(seen)), "finished", JBool(TRUE)))

\* C13: when genUpdateProgressForLesson(C, L, N) and genMarkLessonFinished(C, L)
\* have both completed successfully after both read the same record, the
\* stored record is the one of the two records, each computed from the record
\* read, that was written last; unless the record read was already finished
\* or already had progress N, it is not {finished: true, progress: N}.
C13_LastWriteWins ==
  \A t \in TaskIds, u \in TaskIds :
    /\ tasks[t].op = "genUpdateProgressForLesson"
    /\ tasks[u].op = "genMarkLessonFinished"
    /\ tasks[t].pc = "done" /\ tasks[u].pc = "done"
    /\ tasks[t].course = tasks[u].course /\ tasks[t].lesson = tasks[u].lesson
    /\ tasks[t].seen = tasks[u].seen
    => LET seen == tasks[t].seen
           read == ProgressForLessonValue(seen)
           stored == getItem(store, ProgressKey(tasks[t].course, tasks[t].lesson))
       IN /\ tasks[t].status = "resolved" /\ tasks[u].status = "resolved"
          /\ stored \in {JStr(JSONstringify(UpdatedRecord(seen, tasks[t].val))),
                          JStr(JSONstringify(FinishedRecord(seen)))}
          /\ PropGet(read, "finished") # JBool(TRUE) /\ PropGet(read, "progress") # tasks[t].val
             => ~(/\ PropGet(JSONparse(stored.v), "finished") = JBool(TRUE)
                  /\ PropGet(JSONparse(stored.v), "progress") = tasks[t].val)

\* C13 witness: both calls read {finished: false, progress: 0}, both have
\* completed, and the stored record is finished with progress 0: the update
\* of progress to 42 is lost.
C13_Witness ==
  \E t \in TaskIds, u \in TaskIds :
    /\ tasks[t].op = "genUpdateProgressForLesson"
    /\ tasks[u].op = "genMarkLessonFinished"
    /\ tasks[t].pc = "done" /\ tasks[u].pc = "done"
    /\ tasks[t].status = "resolved" /\ tasks[u].status = "resolved"
    /\ tasks[t].course = "spanish" /\ tasks[u].course = "spanish"
    /\ tasks[t].lesson = JNum(0) /\ tasks[u].lesson = JNum(0)
    /\ tasks[t].val = JNum(42)
    /\ tasks[t].seen = JStr("{\"finished\":false,\"progress\":0}")
    /\ tasks[u].seen = tasks[t].seen
    /\ getItem(store, ProgressKey("spanish", JNum(0)))
         = JStr("{\"finished\":true,\"progress\":0}")


(***************************************************************************)
(* Overlapping calls of genMetricsToken and genDeleteMetricsToken: up to   *)
(* two calls are in flight.                                                *)
(***************************************************************************)
NextMetricsOverlap ==
  \E t \in TaskIds :
    \/ FreeTask(t) /\ genMetricsTokenCall(t)
    \/ FreeTask(t) /\ genDeleteMetricsTokenCall(t)
    \/ genMetricsTokenRead(t)
    \/ \E w \in tasks[t].pending : genMetricsTokenWrite(t, w)
    \/ \E w \in tasks[t].pending : genDeleteMetricsTokenRemove(t, w)
    \/ Return(t)

SpecMetricsOverlap == Init /\ [][NextMetricsOverlap]_vars

\* Two calls of genMetricsToken have completed and both found no token.
BothFoundNoToken(t, u) ==
  /\ t # u
  /\ tasks[t].op = "genMetricsToken" /\ tasks[u].op = "genMetricsToken"
  /\ tasks[t].pc = "done" /\ tasks[u].pc = "done"
  /\ tasks[t].seen = JNull /\ tasks[u].seen = JNull

\* C14: when two calls of genMetricsToken have both found no token, both have
\* stored a token of their own and returned it, the two tokens differ, the
\* store holds one of them, and so one caller holds a token that is not the
\* stored one; each write of a token replaces whatever token is stored, so
\* the stored token is the one written last.
C14_TokensNotReconciled ==
  /\ [](\A t \in TaskIds, u \in TaskIds :
          BothFoundNoToken(t, u)
          => /\ tasks[t].status = "resolved" /\ tasks[u].status = "resolved"
             /\ tasks[t].result = tasks[t].val /\ tasks[u].result = tasks[u].val
             /\ tasks[t].accesses = 2 /\ tasks[u].accesses = 2
             /\ tasks[t].result # tasks[u].result
             /\ getItem(store, MetricsTokenKey) \in {tasks[t].result, tasks[u].result}
             /\ \E x \in {t, u} : tasks[x].result # getItem(store, MetricsTokenKey))
  /\ [][\A t \in TaskIds :
          /\ tasks[t].op = "genMetricsToken"
          /\ tasks[t].pc = "write"
          /\ tasks'[t].pc = "done"
          => getItem(store', MetricsTokenKey) = tasks[t].val]_vars

\* C14 witness: both calls found no token, the call that created the second
\* token wrote first, and the store holds the first token, written last.
C14_Witness ==
  /\ BothFoundNoToken(1, 2)
  /\ tasks[1].result = JStr(uuid(0))
  /\ tasks[2].result = JStr(uuid(1))
  /\ getItem(store, MetricsTokenKey) = JStr(uuid(0))
  /\ nCalls = 2

\* C15: genDeleteProgressForCourse(C) issues the removal of the most recent
\* course exactly when its read returned C, and the removal, when performed,
\* removes the key whatever it then holds; so when it and a
\* genUpdateProgressForLesson(D, L, N) with D # C, the only two calls issued,
\* have both completed and the read returned C, the record of (D, L) is
\* stored and the most recent course is D or absent.
C15_DeleteDecidesFromEarlierRead ==
  /\ [](\A t \in TaskIds :
          tasks[t].op = "genDeleteProgressForCourse"
          => /\ RemoveRequest(MostRecentCourseKey) \in tasks[t].pending
                => tasks[t].seen = JStr(tasks[t].course)
             /\ \A u \in TaskIds :
                  /\ tasks[u].op = "genUpdateProgressForLesson"
                  /\ tasks[u].course # tasks[t].course
                  /\ tasks[t].pc = "done" /\ tasks[u].pc = "done"
                  /\ tasks[t].seen = JStr(tasks[t].course)
                  /\ nCalls = 2
                  => /\ tasks[t].status = "resolved" /\ tasks[u].status = "resolved"
                     /\ ProgressKey(tasks[u].course, tasks[u].lesson) \in DOMAIN store
                     /\ getItem(store, MostRecentCourseKey)
                          \in {JNull, JStr(tasks[u].course)})
  /\ [][\A t \in TaskIds :
          /\ tasks[t].op = "genDeleteProgressForCourse"
          /\ RemoveRequest(MostRecentCourseKey) \in tasks[t].pending
          /\ RemoveRequest(MostRecentCourseKey) \notin tasks'[t].pending
          => MostRecentCourseKey \notin DOMAIN store']_vars

\* C15 witness: the most recent course was spanish; a deletion of spanish
\* and an update of german have both completed, the record of german is
\* stored and the most recent course is absent.
C15_Witness ==
  \E t \in TaskIds, u \in TaskIds :
    /\ tasks[t].op = "genDeleteProgressForCourse"
    /\ tasks[t].course = "spanish"
    /\ tasks[t].seen = JStr("spanish")
    /\ tasks[u].op = "genUpdateProgressForLesson"
    /\ tasks[u].course = "german"
    /\ tasks[t].pc = "done" /\ tasks[u].pc = "done"
    /\ tasks[t].status = "resolved" /\ tasks[u].status = "resolved"
    /\ ProgressKey("german", tasks[u].lesson) \in DOMAIN store
    /\ getItem(store, MostRecentLessonKey("german")) = JStr("0")
    /\ MostRecentCourseKey \notin DOMAIN store
    /\ nCalls = 2


(***************************************************************************)
(* Sequential use of the progress mutations on a store that may reject any *)
(* request, with the auto-delete-finished setter and the download manager. *)
(***************************************************************************)
IssueFailing(t) ==
  \/ \E cl \in OverlappedLessons, progress \in OverlappedProgress :
       genUpdateProgressForLessonCall(t, cl[1], JNum(cl[2]), progress)
  \/ \E cl \in OverlappedLessons : genMarkLessonFinishedCall(t, cl[1], JNum(cl[2]))
  \/ \E course \in Courses : genDeleteProgressForCourseCall(t, course)
  \/ \E b \in BOOLEAN : PreferenceSetCall(t, AUTO_DELETE_FINISHED, JBool(b))

StepFailing(t) ==
  \/ genUpdateProgressForLessonRead(t)
  \/ \E w \in tasks[t].pending : genUpdateProgressForLessonWrite(t, w)
  \/ genMarkLessonFinishedRead(t)
  \/ \E w \in tasks[t].pending : genMarkLessonFinishedWrite(t, w)
  \/ genMarkLessonFinishedPreference(t)
  \/ genMarkLessonFinishedIsDownloaded(t)
  \/ genMarkLessonFinishedDeleteDownload(t)
  \/ genDeleteProgressForCourseRead(t)
  \/ \E w \in tasks[t].pending : genDeleteProgressForCourseRemove(t, w)
  \/ \E w \in tasks[t].pending : PreferenceSetWrite(t, w)
  \/ PreferenceSetLog(t)
  \/ StoreRejectsRead(t)
  \/ \E w \in tasks[t].pending : StoreRejectsWrite(t, w)
  \/ Return(t)

NextFailing ==
  \/ Quiet /\ IssueFailing(1)
  \/ Quiet /\ \E cl \in OverlappedLessons : Download(cl[1], cl[2])
  \/ StepFailing(1)

SpecFailing == Init /\ [][NextFailing]_vars

\* The requests a progress mutation hands to Promise.all after its read
\* returned task.seen.
IssuedRequests(task) ==
  CASE task.op = "genUpdateProgressForLesson"
         -> UpdateProgressRequests(task.course, task.lesson, task.val,
                                   ProgressForLessonValue(task.seen))
    [] task.op = "genMarkLessonFinished"
         -> MarkFinishedRequests(task.course, task.lesson, ProgressForLessonValue(task.seen))
    [] task.op = "genDeleteProgressForCourse"
         -> DeleteProgressRequests(task.course, task.seen = JStr(task.course))

\* Store st shows the effect of request w.
Applied(st, w) ==
  IF w.kind = "setItem" THEN getItem(st, w.key) = JStr(w.value)
  ELSE w.key \notin DOMAIN st

ProgressMutations ==
  {"genUpdateProgressForLesson", "genMarkLessonFinished", "genDeleteProgressForCourse"}

\* C16: when the store has rejected a request of a completed progress
\* mutation, the call is rejected with the store's error, each request was
\* issued once (none retried), every request the store performed is still
\* applied, and every key of a rejected request holds what it held before the
\* call.
C16_NoRollback ==
  \A t \in TaskIds :
    /\ tasks[t].op \in ProgressMutations
    /\ tasks[t].pc = "done"
    /\ tasks[t].failed # {}
    => LET requests == IssuedRequests(tasks[t])
       IN /\ tasks[t].status = "rejected"
          /\ tasks[t].result = JStoreError
          /\ tasks[t].failed \subseteq requests
          /\ tasks[t].accesses = 1 + Cardinality(requests)
          /\ \A w \in requests \ tasks[t].failed : Applied(store, w)
          /\ \A w \in tasks[t].failed :
               getItem(store, w.key) = getItem(tasks[t].pre, w.key)

\* C16 witness: of the three writes of genUpdateProgressForLesson(german, 0,
\* 42) the store rejected the most recent lesson only; the record is stored,
\* the most recent course is german and german has no most recent lesson.
C16_Witness ==
  /\ tasks[1].op = "genUpdateProgressForLesson"
  /\ tasks[1].pc = "done"
  /\ tasks[1].course = "german"
  /\ tasks[1].failed = {SetRequest(MostRecentLessonKey("german"), "0")}
  /\ tasks[1].status = "rejected"
  /\ getItem(store, ProgressKey("german", JNum(0)))
       = JStr("{\"finished\":false,\"progress\":42}")
  /\ getItem(store, MostRecentCourseKey) = JStr("german")
  /\ getItem(tasks[1].pre, MostRecentCourseKey) = JStr("spanish")
  /\ MostRecentLessonKey("german") \notin DOMAIN store

\* C17: a genMarkLessonFinished that has reached the read of the
\* auto-delete-finished preference, the genIsDownloaded query or the
\* genDeleteDownload call has had all three writes performed and none
\* rejected; genIsDownloaded is asked only after the preference read true; a
\* call whose read or whose write the store rejected is rejected and has
\* called genDeleteDownload never, and the downloads are as before the call.
C17_DownloadAfterPersistence ==
  \A t \in TaskIds :
    tasks[t].op = "genMarkLessonFinished"
    => LET task == tasks[t]
           pair == <<task.course, task.lesson.v>>
           sideEffect == \/ task.pc \in {"preference", "isDownloaded", "deleteDownload"}
                         \/ task.accesses > 4
                         \/ task.deleted # <<>>
       IN /\ sideEffect
             => /\ task.failed = {}
                /\ task.pending = {}
                /\ Cardinality(IssuedRequests(task)) = 3
                /\ \A w \in IssuedRequests(task) : Applied(store, w)
                /\ task.accesses = 5
          /\ task.pc \in {"isDownloaded", "deleteDownload"} => AutoDeleteEnabled(store)
          /\ task.pc = "deleteDownload" => pair \in downloads
          /\ task.pc \in {"read", "write"} => task.accesses <= 4 /\ task.deleted = <<>>
          /\ task.failed # {} \/ task.status = "rejected"
             => /\ task.deleted = <<>>
                /\ downloads = task.preDownloads
                /\ task.pc = "done" => task.status = "rejected"

\* C17 witness: auto-delete-finished is enabled and the lesson is downloaded;
\* the store performed two writes of genMarkLessonFinished and rejected one;
\* the call is rejected and the download is kept.
C17_Witness ==
  /\ tasks[1].op = "genMarkLessonFinished"
  /\ tasks[1].pc = "done"
  /\ tasks[1].status = "rejected"
  /\ Cardinality(tasks[1].failed) = 1
  /\ AutoDeleteEnabled(store)
  /\ <<tasks[1].course, tasks[1].lesson.v>> \in downloads
  /\ tasks[1].deleted = <<>>
  /\ tasks[1].accesses = 4
  /\ getItem(store, MostRecentCourseKey) = JStr(tasks[1].course)


(***************************************************************************)
(* Sequential use of the progress accessors with lesson arguments that     *)
(* include NaN, which lesson.toString() stores as "NaN".                   *)
(***************************************************************************)
\* The lesson arguments: lesson is a JavaScript number.
DecodedLessons == {JNum(0), JNaN}

IssueDecode(t) ==
  \/ \E course \in Courses, lesson \in DecodedLessons, progress \in OverlappedProgress :
       genUpdateProgressForLessonCall(t, course, lesson, progress)
  \/ \E cl \in OverlappedLessons : genMarkLessonFinishedCall(t, cl[1], JNum(cl[2]))
  \/ \E course \in Courses, lesson \in DecodedLessons :
       genProgressForLessonCall(t, course, lesson)
  \/ \E course \in Courses : genMostRecentListenedLessonForCourseCall(t, course)

StepDecode(t) ==
  \/ genUpdateProgressForLessonRead(t)
  \/ \E w \in tasks[t].pending : genUpdateProgressForLessonWrite(t, w)
  \/ genMarkLessonFinishedRead(t)
  \/ \E w \in tasks[t].pending : genMarkLessonFinishedWrite(t, w)
  \/ genMarkLessonFinishedPreference(t)
  \/ genProgressForLessonRead(t)
  \/ genMostRecentListenedLessonForCourseRead(t)
  \/ Return(t)

NextDecode ==
  \/ Quiet /\ IssueDecode(1)
  \/ StepDecode(1)

SpecDecode == Init /\ [][NextDecode]_vars

\* The stored string is the JSON text of a record {finished: boolean,
\* progress: number | null}.
WellFormedRecord(str) ==
  LET x == JSONparse(str)
  IN /\ x.t = "object"
     /\ PropGet(x, "finished").t = "boolean"
     /\ PropGet(x, "progress").t \in {"number", "null"}

\* The stored string is the decimal text of an integer.
NumericString(str) ==
  /\ parseInt(str).t = "number"
  /\ IntToString(parseInt(str).v) = str

\* C18 as stated: a progress accessor that has read a stored string that is
\* not a well-formed record is rejected with the decode error and has issued
\* no write; genMostRecentListenedLessonForCourse that has read a stored
\* string that is not numeric is rejected and returns no value.
C18_DecodeFailuresReject ==
  \A t \in TaskIds :
    /\ /\ tasks[t].op \in {"genProgressForLesson", "genUpdateProgressForLesson",
                            "genMarkLessonFinished"}
       /\ tasks[t].pc # "read"
       /\ tasks[t].seen # JNull
       /\ ~WellFormedRecord(tasks[t].seen.v)
       => /\ tasks[t].status = "rejected"
          /\ tasks[t].result = JSyntaxError
          /\ tasks[t].accesses = 1
          /\ tasks[t].pending = {}
    /\ /\ tasks[t].op = "genMostRecentListenedLessonForCourse"
       /\ tasks[t].pc = "done"
       /\ tasks[t].seen # JNull
       /\ ~NumericString(tasks[t].seen.v)
       => tasks[t].status = "rejected"


(***************************************************************************)
(* Pointer consistency under sequential use (Spec).                        *)
(***************************************************************************)
\* C19: while no progress mutation is in flight, if the most recent course
\* key holds C the most recent lesson key of C is stored, and if the most
\* recent lesson key of C holds L a progress record of (C, L) is stored.
C19_PointersConsistent ==
  (\A t \in TaskIds : tasks[t].op \notin ProgressMutations)
  => /\ MostRecentCourseKey \in DOMAIN store
        => MostRecentLessonKey(store[MostRecentCourseKey]) \in DOMAIN store
     /\ \A course \in Courses :
          MostRecentLessonKey(course) \in DOMAIN store
          => /\ parseInt(store[MostRecentLessonKey(course)]).t = "number"
             /\ ProgressKey(course, parseInt(store[MostRecentLessonKey(course)]))
                  \in DOMAIN store

\* C19 witness: after a deletion of german the most recent course is spanish
\* and the most recent lesson of spanish is 12, a lesson the catalog does
\* not report, whose record is stored.
C19_Witness ==
  /\ Quiet
  /\ last.op = "genDeleteProgressForCourse"
  /\ last.course = "german"
  /\ ProgressKey("german", JNum(0)) \in DOMAIN last.pre
  /\ getItem(store, MostRecentCourseKey) = JStr("spanish")
  /\ getItem(store, MostRecentLessonKey("spanish")) = JStr("12")
  /\ ProgressKey("spanish", JNum(12)) \in DOMAIN store


(***************************************************************************)
(* The frame of the operations that write (SpecWriters).                   *)
(***************************************************************************)
\* The keys an operation may change.
FrameKeys(task) ==
  CASE task.op \in {"genUpdateProgressForLesson", "genMarkLessonFinished"}
         -> {ProgressKey(task.course, task.lesson), MostRecentLessonKey(task.course),
             MostRecentCourseKey}
    [] task.op = "genDeleteProgressForCourse"
         -> {MostRecentLessonKey(task.course), MostRecentCourseKey}
            \cup {ProgressKey(task.course, JNum(getLessonIndices(task.course)[i])) :
                    i \in 1..Len(getLessonIndices(task.course))}
    [] task.op = "setPreference" -> {PreferenceKey(task.name)}
    [] OTHER -> {}

\* C20: from its call to its return, a progress mutation or a preference
\* setter leaves every key outside its frame as it was when it was called.
C20_Frame ==
  \A t \in TaskIds :
    tasks[t].op \in ProgressMutations \cup {"setPreference"}
    => \A k \in (DOMAIN store \cup DOMAIN tasks[t].pre) \ FrameKeys(tasks[t]) :
         getItem(store, k) = getItem(tasks[t].pre, k)

\* C20 witness: genDeleteProgressForCourse(spanish) has completed on a store
\* that held a record of spanish lesson 12, which the catalog does not
\* report, and a key of another category; both are as before.
C20_Witness ==
  /\ tasks[1].op = "genDeleteProgressForCourse"
  /\ tasks[1].pc = "done"
  /\ tasks[1].course = "spanish"
  /\ MostRecentLessonKey("spanish") \in DOMAIN tasks[1].pre
  /\ MostRecentLessonKey("spanish") \notin DOMAIN store
  /\ ProgressKey("spanish", JNum(12)) \in DOMAIN store
  /\ \E k \in DOMAIN store : k = MetricsTokenKey \/ k \in {PreferenceKey(name) : name \in Preference}

=============================================================================
